---------------------------- MODULE Spec2Model ----------------------------
(***************************************************************************)
(* A model of the two line-oriented parsers of pyPraat:                    *)
(*   - Formants.from_praat_text and the two exports (src/get_formants.py)  *)
(*   - TextGrid.parse                              (src/TextGrid.py)       *)
(* A file is a sequence of lines; a line is a record [k, v]: k names the   *)
(* only pattern of the parser the line matches, v is what the pattern's    *)
(* group (or the text after the keyword) holds.  Line indices are Python's *)
(* (0-based): Python's f[p] is f[p+1] here.                                *)
(***************************************************************************)
EXTENDS Integers, Sequences, FiniteSets, TLC

VARIABLES
    \* ---- Formants instance (src/get_formants.py)
    f,           \* self.f: the stripped lines of the report
    n,           \* self.n
    i,           \* self.i: the cursor
    last_match,  \* self.last_match: the line of the last match, or None
    data,        \* self.data
    pc,          \* position inside from_praat_text
    raised,      \* the exception that ended from_praat_text
    sk,          \* the scalar loop's position in its keyword list
    frame,       \* local frame
    i_frame,     \* local i_frame
    next_frame,  \* local next_frame
    formants,    \* local formants
    bandwidths,  \* local bandwidths
    formant_i,   \* local formant_i
    out,         \* what the export call made on the instance did
    \* ---- TextGrid instance (src/TextGrid.py)
    content,     \* self.content
    size,        \* self.size
    idx,         \* local idx of parse
    itemRanges,  \* self.itemRanges
    intervals,   \* self.intervals
    tgpc,        \* position inside parse
    ti,          \* local i of parse
    j,           \* local j of the running loop
    i1           \* local i1

fvars == <<f, n, i, last_match, data, pc, raised, sk, frame, i_frame,
           next_frame, formants, bandwidths, formant_i, out>>
tgvars == <<content, size, idx, itemRanges, intervals, tgpc, ti, j, i1>>
vars == <<fvars, tgvars>>

L(k, v) == [k |-> k, v |-> v]

--------------------------------------------------------------------------
(* Bounds of the input files *)

\* Lines after the 'frames []:' marker in a report whose records keep
\* their order and may miss any of their optional lines
MaxBody == 5

\* Lines after the 'frames []:' marker in a report whose lines come in
\* any order
MaxLoose == 3

--------------------------------------------------------------------------
(* Python values *)

\* numpy.nan, the "missing" slot value; every number the patterns can
\* match is unsigned, so no parsed value equals it
NaN == -1

\* None / False: what a search that matched nothing leaves behind
None == -1

\* [numpy.nan]*maxnFormants; a multiplier <= 0 gives the empty list
NewSlotsZero(m) == [k \in 1..m |-> 0]
NewSlots(m) == [k \in 1..m |-> NaN]

\* a[ix] = x on a Python list of length len is legal for -len <= ix < len
IndexOK(ix, len) == (0 - len) <= ix /\ ix < len

\* the 1-based position list index ix addresses (negative ix counts from the end)
Slot(ix, len) == IF ix < 0 THEN len + ix + 1 ELSE ix + 1

\* x1 + frame*dx with frame = int(group(1)) - 1
FrameTimeFromOne(x1, dx, marker) == x1 + marker * dx
FrameTime(x1, dx, marker) == x1 + (marker - 1) * dx


--------------------------------------------------------------------------
(* Formant reports given to from_praat_text *)

\* the two header lines; v = 1 is the exact expected text of the line
Header == << L("File type", 1), L("Object class", 1) >>

\* the six scalar fields, in the order the loop reads them
Keywords == << "xmin", "xmax", "nx", "dx", "x1", "maxnFormants" >>

ScalarLines == << L("xmin", 0), L("xmax", 9), L("nx", 2), L("dx", 10),
                  L("x1", 5), L("maxnFormants", 5) >>

GoodPrefix == Header \o ScalarLines \o << L("frames_array", 0) >>

\* lines whose number is a measured value; each gets the number of its own
\* line as value, so that a stored value names the line it was read from
ValueKinds == {"intensity", "frequency", "bandwidth"}

Renumber(s) ==
    [p \in 1..Len(s) |-> IF s[p].k \in ValueKinds THEN L(s[p].k, p - 1) ELSE s[p]]

\* the lines a report may hold after 'frames []:'
BodyLines ==
    << L("frames", 1), L("frames", 2), L("intensity", 0), L("formant_array", 0),
       L("formant", 0), L("formant", 3), L("formant", 6),
       L("frequency", 0), L("bandwidth", 0) >>

\* what may follow a line of kind k in a report whose optional lines
\* (intensity, 'formant []:', frequency, bandwidth) may each be missing
After(k) ==
    CASE k = "frames_array"  -> {"frames"}
      [] k = "frames"        -> {"intensity", "formant_array", "formant", "frames"}
      [] k = "intensity"     -> {"formant_array", "formant", "frames"}
      [] k = "formant_array" -> {"formant", "frames"}
      [] k = "formant"       -> {"frequency", "bandwidth", "formant", "frames"}
      [] k = "frequency"     -> {"bandwidth", "formant", "frames"}
      [] k = "bandwidth"     -> {"formant", "frames"}

\* the numbers in BodyLines of the lines that may follow line number c
\* (0: the 'frames []:' line that ends the prefix)
Followers(c) ==
    LET k == IF c = 0 THEN "frames_array" ELSE BodyLines[c].k
    IN {d \in 1..Len(BodyLines) : BodyLines[d].k \in After(k)}

LastOf(cs) == IF Len(cs) = 0 THEN 0 ELSE cs[Len(cs)]

\* the bodies of m lines, each line given by its number in BodyLines
RECURSIVE BodiesOfLen(_)
BodiesOfLen(m) ==
    IF m = 0 THEN {<< >>}
    ELSE UNION {{Append(cs, d) : d \in Followers(LastOf(cs))} : cs \in BodiesOfLen(m - 1)}

Body(cs) == [p \in 1..Len(cs) |-> BodyLines[cs[p]]]

\* the bodies of m lines in any order
LooseBodiesOfLen(m) == [1..m -> 1..Len(BodyLines)]

FreeReports ==
    {GoodPrefix \o Body(cs) :
        cs \in UNION ({BodiesOfLen(m) : m \in 0..MaxBody}
                        \cup {LooseBodiesOfLen(m) : m \in 0..MaxLoose})}

\* complete frame records
Rec(x) == << L("formant", x), L("frequency", 0), L("bandwidth", 0) >>
Frm(x) == << L("frames", x), L("intensity", 0), L("formant_array", 0) >>

FixtureBodies ==
    { Frm(1) \o Rec(1) \o Rec(2) \o Frm(2) \o Rec(1),  \* nx = 2 frames
      Frm(1) \o Rec(1) \o Rec(2),                      \* cut after frame 1
      Frm(1) \o Rec(3),                                \* only slot index 2
      Frm(1) \o Rec(6),                                \* index above the range
      Frm(1) \o Rec(0) \o Rec(3),                      \* index below the range
      Frm(1) \o << L("formant", 1) >> \o Frm(2) \o Rec(1) }

DropAt(s, p) == SubSeq(s, 1, p - 1) \o SubSeq(s, p + 1, Len(s))

\* the prefix, whole, with one line missing, or with a foreign header
Prefixes ==
    {GoodPrefix} \cup {DropAt(GoodPrefix, p) : p \in 1..Len(GoodPrefix)}
    \cup {[GoodPrefix EXCEPT ![p].v = 0] : p \in 1..2}

FixtureReports ==
    {pre \o b : pre \in Prefixes, b \in FixtureBodies}
    \cup {SubSeq(GoodPrefix, 1, m) : m \in 0..Len(GoodPrefix)}

Reports == {Renumber(s) : s \in FreeReports \cup FixtureReports}

--------------------------------------------------------------------------
(* Formants._find_line *)

Line(p) == f[p + 1]

\* the first line at or after start matching the pattern, or None
RECURSIVE FirstMatch(_, _, _)
FirstMatch(lines, kind, start) ==
    IF start >= Len(lines) THEN None
    ELSE IF lines[start + 1].k = kind THEN start
    ELSE FirstMatch(lines, kind, start + 1)

\* self.last_match after the search: the match, None after a scan of at
\* least one line that matched nothing, unchanged when range(i, n) is empty
MatchAfter(kind, start) ==
    IF start >= n THEN last_match ELSE FirstMatch(f, kind, start)

\* self.i after the search: moved only by a match
CursorAfter(kind, start) ==
    IF FirstMatch(f, kind, start) = None THEN i ELSE FirstMatch(f, kind, start)

Found(kind, start) == FirstMatch(f, kind, start) # None

\* self.last_match.group(1): AttributeError unless last_match is a match
Group1(m) == f[m + 1].v

--------------------------------------------------------------------------
(* Formants.__init__ *)

NoData ==
    [none |-> TRUE, keys |-> {}, xmin |-> NaN, xmax |-> NaN, nx |-> NaN,
     dx |-> NaN, x1 |-> NaN, maxnFormants |-> NaN, t |-> << >>,
     formants |-> << >>, bandwidths |-> << >>, intensity |-> << >>]

InitF ==
    /\ n = 0 /\ i = -1 /\ last_match = None
    /\ data = NoData
    /\ pc = "fresh" /\ raised = "" /\ sk = 1
    /\ frame = 0 /\ i_frame = 0 /\ next_frame = 0
    /\ formants = << >> /\ bandwidths = << >> /\ formant_i = 0
    /\ out = "none"

Locals == <<frame, i_frame, next_frame, formants, bandwidths, formant_i>>

Raise(e) == pc' = "error" /\ raised' = e

--------------------------------------------------------------------------
(* Formants.from_praat_text *)

\* lines 138-158: read the lines, check the two headers, create self.data
FromPraatText ==
    /\ pc = "fresh" /\ out = "none"
    /\ n' = Len(f)
    /\ IF Len(f) = 0
       THEN /\ Raise("IndexError")
            /\ i' = -1 /\ UNCHANGED data
       ELSE IF f[1] # L("File type", 1)
       THEN /\ Raise("ValueError")
            /\ i' = -1 /\ UNCHANGED data
       ELSE IF Len(f) = 1
       THEN /\ Raise("IndexError")
            /\ i' = -1 /\ UNCHANGED data
       ELSE IF f[2] # L("Object class", 1)
       THEN /\ Raise("ValueError")
            /\ i' = -1 /\ UNCHANGED data
       ELSE /\ i' = 2
            /\ data' = [NoData EXCEPT !.none = FALSE]
            /\ pc' = "scalars"
            /\ UNCHANGED raised
    /\ UNCHANGED <<f, last_match, sk, Locals, out, tgvars>>

\* lines 159-161: one turn of the loop over the six scalar keywords
ParseScalar ==
    /\ pc = "scalars"
    /\ LET k == Keywords[sk]
           m == MatchAfter(k, i)
       IN /\ last_match' = m
          /\ i' = CursorAfter(k, i)
          /\ IF m = None
             THEN /\ Raise("AttributeError")
                  /\ UNCHANGED <<data, sk>>
             ELSE /\ data' = [data EXCEPT ![k] = Group1(m), !.keys = @ \cup {k}]
                  /\ sk' = sk + 1
                  /\ pc' = IF sk = Len(Keywords) THEN "frames_array" ELSE "scalars"
                  /\ UNCHANGED raised
    /\ UNCHANGED <<f, n, Locals, out, tgvars>>

\* lines 162-170: the integer fields, the four empty lists, and the search
\* for 'frames []:', whose result is not looked at
FindFramesArray ==
    /\ pc = "frames_array"
    /\ data' = [data EXCEPT !.keys = @ \cup {"t", "formants", "bandwidths", "intensity"}]
    /\ last_match' = MatchAfter("frames_array", i)
    /\ i' = CursorAfter("frames_array", i)
    /\ pc' = "frames"
    /\ UNCHANGED <<f, n, raised, sk, Locals, out, tgvars>>

\* lines 171-174: the outer loop's test; a frame's time comes from its marker
NextFrame ==
    /\ pc = "frames"
    /\ last_match' = MatchAfter("frames", i)
    /\ i' = CursorAfter("frames", i)
    /\ IF Found("frames", i)
       THEN /\ frame' = Group1(FirstMatch(f, "frames", i)) - 1
            /\ data' = [data EXCEPT !.t = Append(@,
                   FrameTime(data.x1, data.dx, Group1(FirstMatch(f, "frames", i))))]
            /\ pc' = "intensity"
       ELSE /\ pc' = "ok"
            /\ UNCHANGED <<frame, data>>
    /\ UNCHANGED <<f, n, raised, sk, i_frame, next_frame, formants, bandwidths,
                   formant_i, out, tgvars>>

\* lines 176-179
ReadIntensity ==
    /\ pc = "intensity"
    /\ LET m == MatchAfter("intensity", i)
       IN /\ last_match' = m
          /\ i' = CursorAfter("intensity", i)
          /\ IF m = None
             THEN /\ Raise("AttributeError")
                  /\ UNCHANGED <<data, i_frame>>
             ELSE /\ data' = [data EXCEPT !.intensity = Append(@, Group1(m))]
                  /\ i_frame' = CursorAfter("intensity", i)
                  /\ pc' = "next_frame"
                  /\ UNCHANGED raised
    /\ UNCHANGED <<f, n, sk, frame, next_frame, formants, bandwidths, formant_i,
                   out, tgvars>>

\* lines 181-187: the frame's upper bound, then back to the intensity line
FindNextFrame ==
    /\ pc = "next_frame"
    /\ last_match' = MatchAfter("frames", i + 1)
    /\ next_frame' = IF Found("frames", i + 1) THEN FirstMatch(f, "frames", i + 1) ELSE n
    /\ i' = i_frame
    /\ pc' = "formant_array"
    /\ UNCHANGED <<f, n, data, raised, sk, frame, i_frame, formants, bandwidths,
                   formant_i, out, tgvars>>

\* lines 188-191: the search for 'formant []:', whose result is not looked
\* at, and the two fresh slot lists
FindFormantArray ==
    /\ pc = "formant_array"
    /\ last_match' = MatchAfter("formant_array", i)
    /\ i' = CursorAfter("formant_array", i)
    /\ formants' = NewSlots(data.maxnFormants)
    /\ bandwidths' = NewSlots(data.maxnFormants)
    /\ pc' = "formant"
    /\ UNCHANGED <<f, n, data, raised, sk, frame, i_frame, next_frame, formant_i,
                   out, tgvars>>

\* lines 192-199: the inner loop's test and its break
NextFormant ==
    /\ pc = "formant"
    /\ last_match' = MatchAfter("formant", i)
    /\ IF Found("formant", i)
       THEN /\ formant_i' = Group1(FirstMatch(f, "formant", i)) - 1
            /\ IF FirstMatch(f, "formant", i) > next_frame
               THEN i' = next_frame /\ pc' = "append"
               ELSE i' = FirstMatch(f, "formant", i) /\ pc' = "frequency"
       ELSE /\ pc' = "append"
            /\ UNCHANGED <<i, formant_i>>
    /\ UNCHANGED <<f, n, data, raised, sk, frame, i_frame, next_frame, formants,
                   bandwidths, out, tgvars>>

\* lines 201-203
ReadFrequency ==
    /\ pc = "frequency"
    /\ LET m == MatchAfter("frequency", i)
       IN /\ last_match' = m
          /\ i' = CursorAfter("frequency", i)
          /\ IF m = None
             THEN Raise("AttributeError") /\ UNCHANGED formants
             ELSE IF ~IndexOK(formant_i, Len(formants))
             THEN Raise("IndexError") /\ UNCHANGED formants
             ELSE /\ formants' = [formants EXCEPT
                                     ![Slot(formant_i, Len(formants))] = Group1(m)]
                  /\ pc' = "bandwidth"
                  /\ UNCHANGED raised
    /\ UNCHANGED <<f, n, data, sk, frame, i_frame, next_frame, bandwidths,
                   formant_i, out, tgvars>>

\* lines 207-209
ReadBandwidth ==
    /\ pc = "bandwidth"
    /\ LET m == MatchAfter("bandwidth", i)
       IN /\ last_match' = m
          /\ i' = CursorAfter("bandwidth", i)
          /\ IF m = None
             THEN Raise("AttributeError") /\ UNCHANGED bandwidths
             ELSE IF ~IndexOK(formant_i, Len(bandwidths))
             THEN Raise("IndexError") /\ UNCHANGED bandwidths
             ELSE /\ bandwidths' = [bandwidths EXCEPT
                                     ![Slot(formant_i, Len(bandwidths))] = Group1(m)]
                  /\ pc' = "formant"
                  /\ UNCHANGED raised
    /\ UNCHANGED <<f, n, data, sk, frame, i_frame, next_frame, formants,
                   formant_i, out, tgvars>>

\* lines 213-214
AppendFrame ==
    /\ pc = "append"
    /\ data' = [data EXCEPT !.formants = Append(@, formants),
                            !.bandwidths = Append(@, bandwidths)]
    /\ pc' = "frames"
    /\ UNCHANGED <<f, n, i, last_match, raised, sk, Locals, out, tgvars>>

--------------------------------------------------------------------------
(* The exports; an instance is exported between calls of its methods, and
   the model follows it up to its first export *)

Idle == pc \in {"fresh", "ok", "error"} /\ out = "none"

ListKeys == {"t", "formants", "bandwidths", "intensity"}

\* _list_to_matlab_string reads a[0] of every list: IndexError on an empty one
HasEmptyList(d) == \E k \in d.keys \cap ListKeys : Len(d[k]) = 0

\* lines 239-250
ToMatlabLiteral ==
    /\ Idle
    /\ out' = IF data.none THEN "ValueError"
              ELSE IF HasEmptyList(data) THEN "IndexError"
              ELSE "struct"
    /\ UNCHANGED <<f, n, i, last_match, data, pc, raised, sk, Locals, tgvars>>

\* lines 269-272: self.data goes to scipy.io.savemat as it is
ToMatlabMat ==
    /\ Idle
    /\ out' = IF data.none THEN "savemat(None)" ELSE "savemat(data)"
    /\ UNCHANGED <<f, n, i, last_match, data, pc, raised, sk, Locals, tgvars>>

--------------------------------------------------------------------------
(* TextGrid files given to TextGrid.parse.  The file is read with
   open(fname, 'rb') and its lines are compared with str literals, which is
   Python 2: the lines are text. *)

\* Lines of a tier section in a freely composed TextGrid file
MaxTierLines == 6

\* the texts written after 'size = ', as character sequences
SizeTexts == { <<"0">>, <<"1">>, <<"2">>, <<"-", "1">>, <<"x">>, <<"1", ".", "5">> }

\* indices written in '    item [idx]:' and ' intervals [idx]:' lines
ItemIdxs == {1, 2}
IntervalIdxs == {2, 5}

\* what may follow a line of kind k inside the tier sections
AfterTG(k) ==
    CASE k = "size"      -> {"item"}
      [] k = "item"      -> {"item", "intervals", "other"}
      [] k = "other"     -> {"item", "intervals"}
      [] k = "intervals" -> {"xmin", "item"}
      [] k = "xmin"      -> {"xmax"}
      [] k = "xmax"      -> {"text", "item"}
      [] k = "text"      -> {"item", "intervals"}

LinesOfKindTG(k) ==
    CASE k = "item"      -> {L(k, x) : x \in ItemIdxs}
      [] k = "intervals" -> {L(k, x) : x \in IntervalIdxs}
      [] OTHER           -> {L(k, 0)}

ExtensionsTG(s) ==
    UNION {{Append(s, l) : l \in LinesOfKindTG(k)} : k \in AfterTG(s[Len(s)].k)}

\* the tier sections, each started from a placeholder 'size' line
RECURSIVE SectionsOfLen(_)
SectionsOfLen(m) ==
    IF m = 0 THEN {<< L("size", 0) >>}
    ELSE UNION {ExtensionsTG(s) : s \in SectionsOfLen(m - 1)}

Sections == {Tail(s) : s \in UNION {SectionsOfLen(m) : m \in 0..MaxTierLines}}

\* lines read as numbers or labels get the number of their own line
Numbered(s) ==
    [p \in 1..Len(s) |->
        IF s[p].k \in {"xmin", "xmax", "text"} THEN L(s[p].k, p - 1) ELSE s[p]]

\* a complete interval block and two whole files built from them
Block(x) == << L("intervals", x), L("xmin", 0), L("xmax", 0), L("text", 0) >>

FixtureSections ==
    { << L("item", 1) >> \o Block(5) \o Block(2) \o << L("item", 2) >> \o Block(1),
      << L("item", 1) >> \o Block(1) }

\* the head of the file: the class line (right, foreign or missing) and the
\* size line (one of SizeTexts, or missing)
Heads ==
    {<< L("Object class", 1), L("size", t) >> : t \in SizeTexts}
    \cup {<< L("Object class", 1) >>, << L("Object class", 0), L("size", <<"1">>) >>,
          << L("size", <<"1">>) >>}

TextGrids ==
    {Numbered(h \o b) : h \in Heads, b \in Sections \cup FixtureSections}

--------------------------------------------------------------------------
(* Python's int() on a stripped text *)

Digits == << "0", "1", "2", "3", "4", "5", "6", "7", "8", "9" >>

IsDigit(c) == \E d \in 1..Len(Digits) : Digits[d] = c

DigitValue(c) == (CHOOSE d \in 1..Len(Digits) : Digits[d] = c) - 1

RECURSIVE Decimal(_)
Decimal(t) ==
    IF Len(t) = 0 THEN 0
    ELSE 10 * Decimal(SubSeq(t, 1, Len(t) - 1)) + DigitValue(t[Len(t)])

AllDigits(t) == Len(t) > 0 /\ \A p \in 1..Len(t) : IsDigit(t[p])

\* int(text) succeeds on an optional sign followed by digits
IntOK(t) ==
    /\ Len(t) > 0
    /\ IF t[1] \in {"-", "+"} THEN AllDigits(Tail(t)) ELSE AllDigits(t)

IntValue(t) ==
    IF t[1] = "-" THEN 0 - Decimal(Tail(t))
    ELSE IF t[1] = "+" THEN Decimal(Tail(t))
    ELSE Decimal(t)

--------------------------------------------------------------------------
(* TextGrid.findLineSW and TextGrid.parse *)

\* the first line at or after start that starts with the text, or None;
\* an item line is looked for with its index, the others by keyword alone
RECURSIVE findLineSW(_, _, _, _)
findLineSW(lines, kind, x, start) ==
    IF start >= Len(lines) THEN None
    ELSE IF lines[start + 1].k = kind /\ (kind # "item" \/ lines[start + 1].v = x)
         THEN start
    ELSE findLineSW(lines, kind, x, start + 1)

InitTG ==
    /\ size = 0 /\ idx = << >> /\ itemRanges = << >> /\ intervals = << >>
    /\ tgpc = "start" /\ ti = None /\ j = 0 /\ i1 = 0

\* lines 16-18: the class line
CheckClass ==
    /\ tgpc = "start"
    /\ ti' = findLineSW(content, "Object class", 0, 0)
    /\ tgpc' = IF ti' = None \/ content[ti' + 1].v # 1 THEN "Exception" ELSE "size"
    /\ UNCHANGED <<content, size, idx, itemRanges, intervals, j, i1, fvars>>

\* lines 21-24: the declared size
GetSize ==
    /\ tgpc = "size"
    /\ ti' = findLineSW(content, "size", 0, 0)
    /\ IF ti' = None
       THEN tgpc' = "Exception" /\ UNCHANGED size
       ELSE IF ~IntOK(content[ti' + 1].v)
       THEN tgpc' = "ValueError" /\ UNCHANGED size
       ELSE size' = IntValue(content[ti' + 1].v) /\ tgpc' = "items"
    /\ j' = 0
    /\ UNCHANGED <<content, idx, itemRanges, intervals, i1, fvars>>

\* lines 28-30: one turn of the loop over range(self.size); i+1 is a
\* TypeError once a search has returned None
FindItem ==
    /\ tgpc = "items" /\ j < size
    /\ IF ti = None
       THEN tgpc' = "TypeError" /\ UNCHANGED <<ti, idx, j>>
       ELSE /\ ti' = findLineSW(content, "item", j + 1, ti + 1)
            /\ idx' = Append(idx, ti')
            /\ j' = j + 1
            /\ UNCHANGED tgpc
    /\ UNCHANGED <<content, size, itemRanges, intervals, i1, fvars>>

\* lines 31-34: the end of the last tier and the line range of each tier
BuildRanges ==
    /\ tgpc = "items" /\ j >= size
    /\ LET all == Append(idx, Len(content))
           m == IF size < 0 THEN 0 ELSE size
       IN /\ idx' = all
          /\ IF \E k \in 1..m : all[k] = None
             THEN tgpc' = "TypeError" /\ UNCHANGED itemRanges
             ELSE /\ itemRanges' = [k \in 1..m |-> << all[k] + 1, all[k + 1] >>]
                  /\ tgpc' = "tier"
    /\ j' = 0
    /\ UNCHANGED <<content, size, intervals, ti, i1, fvars>>

\* lines 38-41: open tier j, or return after the last one
NextTier ==
    /\ tgpc = "tier"
    /\ IF j < size
       THEN /\ intervals' = Append(intervals, << >>)
            /\ i1' = itemRanges[j + 1][1]
            /\ tgpc' = "scan"
       ELSE /\ tgpc' = "ok"
            /\ UNCHANGED <<intervals, i1>>
    /\ UNCHANGED <<content, size, idx, itemRanges, ti, j, fvars>>

\* float(line.strip().replace('xmin = ', '')) succeeds on a line of that keyword
FloatOK(line, keyword) == line.k = keyword

\* line.strip().replace('text = ', '').strip('"'): the label of a text
\* line, and any other line as it stands
TextOf(line) == IF line.k = "text" THEN L("label", line.v) ELSE line

\* lines 42-53: one turn of the scan of tier j
ScanLine ==
    /\ tgpc = "scan"
    /\ IF i1 < itemRanges[j + 1][2]
       THEN IF content[i1 + 1].k = "intervals"
            THEN IF i1 + 1 >= Len(content)
                 THEN tgpc' = "IndexError" /\ UNCHANGED <<intervals, i1, j>>
                 ELSE IF ~FloatOK(content[i1 + 2], "xmin")
                 THEN tgpc' = "ValueError" /\ UNCHANGED <<intervals, i1, j>>
                 ELSE IF i1 + 2 >= Len(content)
                 THEN tgpc' = "IndexError" /\ UNCHANGED <<intervals, i1, j>>
                 ELSE IF ~FloatOK(content[i1 + 3], "xmax")
                 THEN tgpc' = "ValueError" /\ UNCHANGED <<intervals, i1, j>>
                 ELSE IF i1 + 3 >= Len(content)
                 THEN tgpc' = "IndexError" /\ UNCHANGED <<intervals, i1, j>>
                 ELSE /\ intervals' = [intervals EXCEPT ![j + 1] = Append(@,
                              [xmin |-> content[i1 + 2].v,
                               xmax |-> content[i1 + 3].v,
                               text |-> TextOf(content[i1 + 4])])]
                      /\ i1' = i1 + 4
                      /\ UNCHANGED <<tgpc, j>>
            ELSE i1' = i1 + 1 /\ UNCHANGED <<intervals, tgpc, j>>
       ELSE /\ j' = j + 1
            /\ tgpc' = "tier"
            /\ UNCHANGED <<intervals, i1>>
    /\ UNCHANGED <<content, size, idx, itemRanges, ti, fvars>>

--------------------------------------------------------------------------
(* Specifications *)

\* a Formants instance, one report, one parse, then at most one export
Init ==
    /\ f \in Reports
    /\ InitF
    /\ content = << >> /\ InitTG

Next ==
    \/ FromPraatText
    \/ ParseScalar
    \/ FindFramesArray
    \/ NextFrame
    \/ ReadIntensity
    \/ FindNextFrame
    \/ FindFormantArray
    \/ NextFormant
    \/ ReadFrequency
    \/ ReadBandwidth
    \/ AppendFrame
    \/ ToMatlabLiteral
    \/ ToMatlabMat

Spec == Init /\ [][Next]_vars

\* a TextGrid instance: one file, parsed by the constructor
InitGrid ==
    /\ content \in TextGrids
    /\ InitTG
    /\ f = << >> /\ InitF

NextGrid ==
    \/ CheckClass
    \/ GetSize
    \/ FindItem
    \/ BuildRanges
    \/ NextTier
    \/ ScanLine

SpecGrid == InitGrid /\ [][NextGrid]_vars

--------------------------------------------------------------------------
(* Properties of TextGrid.parse, under SpecGrid *)

\* the line of the 'intervals [n]:' header of an interval: its xmin line
\* holds the number of its own line, one after the header
HeaderLine(iv) == iv.xmin - 1

HeaderLines(t) == {HeaderLine(intervals[t][q]) : q \in 1..Len(intervals[t])}

\* the lines an accepted block takes after its header
Consumed(t) == {h + d : h \in HeaderLines(t), d \in 1..3}

\* tier t holds the blocks detected in its line range, in file order
TierHoldsItsBlocks(t) ==
    LET lo == itemRanges[t][1]
        hi == itemRanges[t][2]
    IN /\ \A q \in 1..Len(intervals[t]) :
             LET h == HeaderLine(intervals[t][q])
             IN /\ lo <= h /\ h < hi
                /\ content[h + 1].k = "intervals"
                /\ intervals[t][q].xmax = h + 2
                /\ intervals[t][q].text = TextOf(content[h + 4])
       /\ \A q \in 1..(Len(intervals[t]) - 1) :
             HeaderLine(intervals[t][q]) < HeaderLine(intervals[t][q + 1])
       /\ \A h \in lo..(hi - 1) :
             (content[h + 1].k = "intervals" /\ h \notin Consumed(t))
                 => h \in HeaderLines(t)

\* the item marker that opens tier t is the line before its range, and the
\* range ends at the next tier's marker or at the end of the file
RangeIsTierSection(t) ==
    /\ content[itemRanges[t][1]].k = "item"
    /\ content[itemRanges[t][1]].v = t
    /\ itemRanges[t][2] = IF t < Len(itemRanges) THEN itemRanges[t + 1][1] - 1
                          ELSE Len(content)

\* C1: whenever parse succeeds, the number of tiers returned equals the
\* declared size, and every tier's list holds the interval blocks detected
\* between its item marker and the next one (or the end), in the order of
\* the file, whatever numbers their headers carry
C1_TiersAsDeclared ==
    tgpc = "ok" =>
        /\ Len(intervals) = size
        /\ \A t \in 1..Len(intervals) : RangeIsTierSection(t) /\ TierHoldsItsBlocks(t)

\* the same statement for the files whose declared size is not negative
TiersAsDeclaredFromZero ==
    (tgpc = "ok" /\ size >= 0) =>
        /\ Len(intervals) = size
        /\ \A t \in 1..Len(intervals) : RangeIsTierSection(t) /\ TierHoldsItsBlocks(t)

\* a tier that took 'intervals [5]:' and then 'intervals [2]:'
BlocksOutOfNumericOrder ==
    /\ tgpc = "ok"
    /\ \E t \in 1..Len(intervals) :
          /\ Len(intervals[t]) = 2
          /\ content[HeaderLine(intervals[t][1]) + 1].v = 5
          /\ content[HeaderLine(intervals[t][2]) + 1].v = 2

\* the text after 'size = ' of the first size line, if there is one
HasSizeLine == findLineSW(content, "size", 0, 0) # None
DeclaredText == content[findLineSW(content, "size", 0, 0) + 1].v

\* C6: parse fails whenever the size line is absent or its value is not a
\* non-negative integer: a parse that succeeded had a size line holding a
\* non-negative integer
C6_SizeIsNonNegativeInteger ==
    tgpc = "ok" =>
        /\ HasSizeLine
        /\ IntOK(DeclaredText)
        /\ IntValue(DeclaredText) >= 0

\* the part of C6 the code keeps: an absent or non-integer size fails
SizeIsInteger ==
    tgpc = "ok" => (HasSizeLine /\ IntOK(DeclaredText))

--------------------------------------------------------------------------
(* Properties of Formants, under Spec *)

FrameMarkers == {p \in 0..(Len(f) - 1) : Line(p).k = "frames"}

\* the report has the whole prefix and every frame record is complete
StrictAfter(k) ==
    CASE k = "frames_array"  -> {"frames"}
      [] k = "frames"        -> {"intensity"}
      [] k = "intensity"     -> {"formant_array"}
      [] k = "formant_array" -> {"formant", "frames"}
      [] k = "formant"       -> {"frequency"}
      [] k = "frequency"     -> {"bandwidth"}
      [] k = "bandwidth"     -> {"formant", "frames"}

CompleteReport ==
    /\ Len(f) >= Len(GoodPrefix)
    /\ SubSeq(f, 1, Len(GoodPrefix)) = GoodPrefix
    /\ \A p \in Len(GoodPrefix)..(Len(f) - 1) : f[p + 1].k \in StrictAfter(f[p].k)
    /\ f[Len(f)].k \in {"frames_array", "formant_array", "bandwidth"}

\* the intensity lines, in file order: one per frame of a complete report
RECURSIVE ValuesOfKind(_, _)
ValuesOfKind(lines, kind) ==
    IF Len(lines) = 0 THEN << >>
    ELSE IF lines[1].k = kind THEN << lines[1].v >> \o ValuesOfKind(Tail(lines), kind)
    ELSE ValuesOfKind(Tail(lines), kind)

\* C2: a report with valid headers and scalars and complete frame records
\* is parsed without failure, and gives one frame per 'frames [idx]:'
\* marker, in scan order, whether or not that is nx frames
C2_CompleteReportParses ==
    CompleteReport =>
        /\ pc # "error"
        /\ pc = "ok" =>
              /\ Len(data.formants) = Cardinality(FrameMarkers)
              /\ Len(data.bandwidths) = Cardinality(FrameMarkers)
              /\ data.intensity = ValuesOfKind(f, "intensity")

\* the same statement for the complete reports whose formant indices are
\* all within 1..maxnFormants
CompleteReportInRangeParses ==
    (CompleteReport /\ \A p \in 1..Len(f) :
          f[p].k = "formant" => (1 <= f[p].v /\ f[p].v <= ScalarLines[6].v)) =>
        /\ pc # "error"
        /\ pc = "ok" =>
              /\ Len(data.formants) = Cardinality(FrameMarkers)
              /\ Len(data.bandwidths) = Cardinality(FrameMarkers)
              /\ data.intensity = ValuesOfKind(f, "intensity")

\* frequency and bandwidth slots are missing together
Paired(fs, bs) ==
    /\ Len(fs) = data.maxnFormants
    /\ Len(bs) = data.maxnFormants
    /\ \A k \in 1..Len(fs) : (fs[k] = NaN) <=> (bs[k] = NaN)

\* slot k of the frame being read was addressed by a 'formant [idx]:'
\* marker between the frame's intensity line and its upper bound
Selected(k) ==
    \E p \in (i_frame + 1)..(next_frame - 1) :
        /\ Line(p).k = "formant"
        /\ IndexOK(Line(p).v - 1, data.maxnFormants)
        /\ Slot(Line(p).v - 1, data.maxnFormants) = k

C4_TimeByPosition ==
    pc = "ok" =>
        \A q \in 1..Len(data.t) : data.t[q] = data.x1 + (q - 1) * data.dx

\* C4 as amended: a frame's time is x1 + (idx - 1)*dx for the index idx
\* written in the 'frames [idx]:' marker that opened the frame
C4_TimeByMarkerIndex ==
    /\ pc = "intensity" =>
          /\ Line(i).k = "frames"
          /\ frame = Line(i).v - 1
          /\ data.t[Len(data.t)] = data.x1 + (Line(i).v - 1) * data.dx
    /\ pc \in {"intensity", "next_frame", "formant_array", "formant",
               "frequency", "bandwidth", "append"} =>
          data.t[Len(data.t)] = data.x1 + frame * data.dx
    /\ \A q \in 1..Len(data.t) :
          \E p \in FrameMarkers : data.t[q] = data.x1 + (Line(p).v - 1) * data.dx

\* a returned report whose markers came out of order: 'frames [2]:' first
TimesOutOfOrder ==
    /\ pc = "ok"
    /\ Len(data.t) = 2
    /\ data.t[1] = data.x1 + data.dx
    /\ data.t[2] = data.x1

\* the searches from_praat_text cannot do without, by position in the code
SearchPcs == {"scalars", "frames_array", "intensity", "formant_array",
              "frequency", "bandwidth"}

Required == IF pc = "scalars" THEN Keywords[sk] ELSE pc

\* C5: every search for a required field or marker that reaches the end of
\* the input without a match makes the parse fail
C5_MissedSearchFails ==
    [][(pc \in SearchPcs /\ FirstMatch(f, Required, i) = None) => pc' = "error"]_vars

\* the part of C5 the code keeps: the searches whose match is read
MissedFieldFails ==
    [][(pc \in (SearchPcs \ {"frames_array", "formant_array"})
            /\ FirstMatch(f, Required, i) = None) => pc' = "error"]_vars

\* C7: after a failed parse the instance holds no partly filled record,
\* and an export called then does not succeed on partial data
C7_NoPartialData ==
    pc = "error" => (data.none /\ out \notin {"struct", "savemat(data)"})

\* C8: on an instance whose data is None, each export fails with the state
\* error and serialises nothing
C8_ExportNeedsData ==
    data.none => out \in {"none", "ValueError"}

InRange(ix) == 0 <= ix /\ ix < data.maxnFormants

\* the slot nearest to an index outside the range
Nearest(ix) == IF ix < 0 THEN 1 ELSE data.maxnFormants

ClampedOrIgnored(old, new, x) ==
    new = old \/ new = [old EXCEPT ![Nearest(formant_i)] = x]

\* C9: a formant marker whose index is outside 1..maxnFormants does not
\* fail the parse, and its values go to the nearest slot or nowhere
C9_OutOfRangeClamped ==
    [][/\ (pc = "frequency" /\ ~InRange(formant_i) /\ Found("frequency", i)) =>
             /\ pc' # "error"
             /\ ClampedOrIgnored(formants, formants', Group1(FirstMatch(f, "frequency", i)))
       /\ (pc = "bandwidth" /\ ~InRange(formant_i) /\ Found("bandwidth", i)) =>
             /\ pc' # "error"
             /\ ClampedOrIgnored(bandwidths, bandwidths', Group1(FirstMatch(f, "bandwidth", i)))
      ]_vars

\* no 'frames [idx]:' marker on the lines a+1 .. b
NoMarkerWithin(a, b) == \A p \in (a + 1)..b : Line(p).k # "frames"

\* C10: the intensity, frequencies and bandwidths stored for a frame are
\* read before the next frame marker, and the inner loop leaves the cursor
\* at or before that marker
C10_ValuesFromOwnFrame ==
    [][/\ (pc = "intensity" /\ pc' = "next_frame") => NoMarkerWithin(i, i')
       /\ (pc = "frequency" /\ pc' = "bandwidth") => NoMarkerWithin(i, i')
       /\ (pc = "bandwidth" /\ pc' = "formant") => NoMarkerWithin(i, i')
       /\ (pc = "formant" /\ pc' = "append") => i' <= next_frame
      ]_vars

==========================================================================
